---- MODULE Spec2Model ----
(***************************************************************************)
(* Dense-matrix single-source shortest paths: the Dijkstra<float> class of *)
(* src/src/dijkstra.cxx (constructor, min_distance, from_vertex) and the   *)
(* fixture graph of its main().                                            *)
(*                                                                         *)
(* Vertices are 0-based, so vectors are functions on 0..n-1 and a matrix   *)
(* is a function from row index to row.  Weights are small integers, which *)
(* float represents exactly; float infinity is the value Inf, larger than  *)
(* every finite sum, with saturating addition.                             *)
(***************************************************************************)
EXTENDS Integers, FiniteSets, Sequences, TLC

\* ---- bounds of the explored inputs ----
MaxN == 3
MaxW == 3
MaxEdges == 3

\* numeric_limits<float>::infinity()
Inf == 1000000

\* value of the uninitialised local min_index when no vertex qualified
Unassigned == 0 - 1

VARIABLES pc, given, graph, size, source, dist, is_processed, count, u, oob

vars == <<pc, given, graph, size, source, dist, is_processed, count, u, oob>>

Verts(n) == 0 .. (n - 1)

RowLen(row) == Cardinality(DOMAIN row)

\* float addition on the modelled values: inf + x = inf
Add(a, b) == IF a = Inf \/ b = Inf THEN Inf ELSE a + b

\* ---- inputs ----
\* entries of a present edge: the lightest weight, the heaviest, infinity
Weights == {1, MaxW, Inf}

\* the diagonal is uniformly 0 (the convention) or uniformly 1; a diagonal
\* of ones counts as one of the MaxEdges nonzero items of a matrix
Diagonals == {0, 1}

Positions(n) == {q \in Verts(n) \X Verts(n) : q[1] # q[2]}

EdgeSets(n, dg) == {E \in SUBSET Positions(n) : Cardinality(E) + dg <= MaxEdges}

\* the n x n matrix with entry w[r, c] at the positions of E, dg on the
\* diagonal and 0 elsewhere
MatrixOf(n, E, w, dg) ==
    [r \in Verts(n) |->
        [c \in Verts(n) |->
            IF r = c THEN dg ELSE IF <<r, c>> \in E THEN w[<<r, c>>] ELSE 0]]

\* a matrix of ones whose row r has one entry too few or one too many
RaggedMatrices ==
    UNION { { [r \in Verts(n) |-> [c \in Verts(IF r = bad THEN len ELSE n) |-> 1]]
              : bad \in Verts(n), len \in {n - 1, n + 1} }
            : n \in 1 .. MaxN }

\* the graph of main()
Fixture ==
    [r \in 0 .. 3 |->
        CASE r = 0 -> [c \in 0 .. 3 |-> CASE c = 0 -> 0 [] c = 1 -> Inf [] c = 2 -> 0 - 2 [] c = 3 -> Inf]
          [] r = 1 -> [c \in 0 .. 3 |-> CASE c = 0 -> 4 [] c = 1 -> 0 [] c = 2 -> 3 [] c = 3 -> Inf]
          [] r = 2 -> [c \in 0 .. 3 |-> CASE c = 0 -> Inf [] c = 1 -> Inf [] c = 2 -> 0 [] c = 3 -> 2]
          [] r = 3 -> [c \in 0 .. 3 |-> CASE c = 0 -> Inf [] c = 1 -> 0 - 1 [] c = 2 -> Inf [] c = 3 -> 0]]

\* what a read past the end of a row may yield
Garbage == {0} \cup Weights

IsSquare(g) == \A r \in DOMAIN g : RowLen(g[r]) = RowLen(g)

\* ---- Dijkstra::min_distance ----
\* variant: strict comparison, so a vertex tied with the running minimum
\* (or at infinity) never replaces it
RECURSIVE ScanMinStrict(_, _, _, _, _)
ScanMinStrict(v, min, min_index, d, p) ==
    IF v >= size THEN min_index
    ELSE IF p[v] = FALSE /\ d[v] < min
         THEN ScanMinStrict(v + 1, d[v], v, d, p)
         ELSE ScanMinStrict(v + 1, min, min_index, d, p)

\* variant: the processed marker is not consulted
RECURSIVE ScanMinAny(_, _, _, _, _)
ScanMinAny(v, min, min_index, d, p) ==
    IF v >= size THEN min_index
    ELSE IF d[v] <= min
         THEN ScanMinAny(v + 1, d[v], v, d, p)
         ELSE ScanMinAny(v + 1, min, min_index, d, p)

RECURSIVE ScanMin(_, _, _, _, _)
ScanMin(v, min, min_index, d, p) ==
    IF v >= size THEN min_index
    ELSE IF p[v] = FALSE /\ d[v] <= min
         THEN ScanMin(v + 1, d[v], v, d, p)
         ELSE ScanMin(v + 1, min, min_index, d, p)

min_distance(d, p) == ScanMin(0, Inf, Unassigned, d, p)

\* an unassigned min_index is an indeterminate int
SelectedIndexes(mi) == IF mi = Unassigned THEN (0 - 1) .. size ELSE {mi}

\* ---- the relaxation loop of from_vertex, v = 0 .. size-1 ----
\* variant: the entry is not tested for zero
RelaxCondZeroEdge(row, d, p, uu, v) ==
    /\ ~p[v]
    /\ d[uu] # Inf
    /\ Add(d[uu], row[v]) < d[v]

\* variant: the entry is tested for being positive
RelaxCondPositive(row, d, p, uu, v) ==
    /\ ~p[v]
    /\ row[v] > 0
    /\ d[uu] # Inf
    /\ Add(d[uu], row[v]) < d[v]

RelaxCond(row, d, p, uu, v) ==
    /\ ~p[v]
    /\ row[v] # 0
    /\ d[uu] # Inf
    /\ Add(d[uu], row[v]) < d[v]

\* variant: the edge weight alone is stored, without dist[u]
RECURSIVE RelaxLoopEdgeOnly(_, _, _, _, _)
RelaxLoopEdgeOnly(v, row, d, p, uu) ==
    IF v >= size THEN d
    ELSE IF RelaxCond(row, d, p, uu, v)
         THEN RelaxLoopEdgeOnly(v + 1, row, [d EXCEPT ![v] = row[v]], p, uu)
         ELSE RelaxLoopEdgeOnly(v + 1, row, d, p, uu)

RECURSIVE RelaxLoop(_, _, _, _, _)
RelaxLoop(v, row, d, p, uu) ==
    IF v >= size THEN d
    ELSE IF RelaxCond(row, d, p, uu, v)
         THEN RelaxLoop(v + 1, row, [d EXCEPT ![v] = Add(d[uu], row[v])], p, uu)
         ELSE RelaxLoop(v + 1, row, d, p, uu)

\* columns of row uu that the loop reads although the row does not have them
OobCols(row, p) == {v \in Verts(size) : ~p[v] /\ v \notin DOMAIN row}

\* ---- state machine ----
Init ==
    /\ pc = "new"
    /\ given = <<>>
    /\ graph = <<>>
    /\ size = 0
    /\ source = 0
    /\ dist = <<>>
    /\ is_processed = <<>>
    /\ count = 0
    /\ u = Unassigned
    /\ oob = FALSE

\* Dijkstra(const Matrix<T> g): graph = g; size = g.size(); no shape check
ConstructFrom(g) ==
    /\ given' = g
    /\ graph' = g
    /\ size' = RowLen(g)
    /\ pc' = "ready"
    /\ UNCHANGED <<source, dist, is_processed, count, u, oob>>

Construct ==
    /\ pc = "new"
    /\ \/ \E n \in 0 .. MaxN : \E dg \in Diagonals : \E E \in EdgeSets(n, dg) :
              \E w \in [E -> Weights] : ConstructFrom(MatrixOf(n, E, w, dg))
       \/ \E g \in RaggedMatrices \cup {Fixture} : ConstructFrom(g)

\* variant: the zero is stored at index 0 whatever the source
InitDistFirst(n, s) ==
    IF s \in Verts(n) THEN [[i \in Verts(n) |-> Inf] EXCEPT ![0] = 0]
    ELSE [i \in Verts(n) |-> Inf]

\* lines 50-55: fill with infinity, then dist[source] = 0
InitDist(n, s) ==
    IF s \in Verts(n) THEN [[i \in Verts(n) |-> Inf] EXCEPT ![s] = 0]
    ELSE [i \in Verts(n) |-> Inf]

\* from_vertex, up to the head of the main loop.  dist[source] = 0 with
\* source outside the vector is an out-of-bounds store: the process
\* faults, or the store lands outside the vector and execution goes on.
Call ==
    /\ pc \in {"ready", "done"}
    /\ \E s \in (0 - 1) .. size :
        /\ source' = s
        /\ dist' = InitDist(size, s)
        /\ is_processed' = [i \in Verts(size) |-> FALSE]
        /\ count' = 0
        /\ u' = Unassigned
        /\ oob' = (s \notin Verts(size))
        /\ \/ pc' = "loop"
           \/ s \notin Verts(size) /\ pc' = "fault"
    /\ UNCHANGED <<given, graph, size>>

\* the row of graph[idx] as the relaxation loop sees it: junk where the
\* loop reads past the end of the row
SeenRow(idx, cols, junk) ==
    [v \in Verts(size) |->
        IF v \in cols THEN junk[v]
        ELSE IF v \in DOMAIN graph[idx] THEN graph[idx][v] ELSE 0]

\* variant: the relaxed sum is also stored into the matrix entry
LoopBodyStoresGraph(idx, p2, row) ==
    /\ is_processed' = p2
    /\ dist' = RelaxLoop(0, row, dist, p2, idx)
    /\ graph' = [graph EXCEPT ![idx] =
                    [v \in DOMAIN graph[idx] |->
                        IF v \in Verts(size) /\ RelaxCond(row, dist, p2, idx, v)
                        THEN Add(dist[idx], row[v]) ELSE graph[idx][v]]]

\* lines 60-68: mark u processed, relax every unprocessed v
LoopBody(idx, p2, row) ==
    /\ is_processed' = p2
    /\ dist' = RelaxLoop(0, row, dist, p2, idx)
    /\ graph' = graph

\* one iteration of the main loop.  A read past the end of row u yields
\* an arbitrary value or faults; an indeterminate u outside the vector
\* faults at is_processed[u] = true.
Iterate ==
    /\ pc = "loop"
    /\ count < size - 1
    /\ \E idx \in SelectedIndexes(min_distance(dist, is_processed)) :
        /\ u' = idx
        /\ IF idx \notin Verts(size)
           THEN /\ pc' = "fault"
                /\ oob' = TRUE
                /\ UNCHANGED <<graph, dist, is_processed, count>>
           ELSE LET p2 == [is_processed EXCEPT ![idx] = TRUE]
                    cols == OobCols(graph[idx], p2)
                IN  /\ oob' = (oob \/ cols # {})
                    /\ \/ \E junk \in [cols -> Garbage] :
                            /\ LoopBody(idx, p2, SeenRow(idx, cols, junk))
                            /\ count' = count + 1
                            /\ pc' = "loop"
                       \/ /\ cols # {}
                          /\ pc' = "fault"
                          /\ is_processed' = p2
                          /\ UNCHANGED <<graph, dist, count>>
    /\ UNCHANGED <<given, size, source>>

\* loop exit and return dist
Return ==
    /\ pc = "loop"
    /\ ~(count < size - 1)
    /\ pc' = "done"
    /\ UNCHANGED <<given, graph, size, source, dist, is_processed, count, u, oob>>

Next == Construct \/ Call \/ Iterate \/ Return

Spec == Init /\ [][Next]_vars

TypeOK ==
    /\ pc \in {"new", "ready", "loop", "done", "fault"}
    /\ size = RowLen(graph)
    /\ count >= 0

\* ---- reference notions used by the properties ----
Called == pc \in {"loop", "done", "fault"}

ValidSource == source \in Verts(size)

NonNegative(g) == \A r \in DOMAIN g : \A c \in DOMAIN g[r] : g[r][c] >= 0

Usable(x) == x # 0 /\ x # Inf

MinOf(S) == CHOOSE x \in S : \A y \in S : x <= y

MaxOf(S) == CHOOSE x \in S : \A y \in S : x >= y

\* the least summed weight over the simple paths cur -> v that avoid the
\* vertices of seen and use only usable entries; Inf when there is none
RECURSIVE BestFrom(_, _, _, _, _)
BestFrom(g, n, cur, v, seen) ==
    IF cur = v THEN 0
    ELSE MinOf({Inf} \cup
               {Add(g[cur][w], BestFrom(g, n, w, v, seen \cup {w})) :
                    w \in {x \in Verts(n) \ seen : Usable(g[cur][x])}})

ShortestDist(g, n, s, v) == BestFrom(g, n, s, v, {s})

Unprocessed == {v \in Verts(size) : ~is_processed[v]}

Processed == {v \in Verts(size) : is_processed[v]}

\* ---- properties ----

\* C1: for a square matrix of size N >= 1 with non-negative entries (0 and
\* infinity meaning no usable edge) and a source in [0, N), every entry v of
\* the vector from_vertex returns is the minimum summed weight over the
\* simple paths source -> v, or infinity when there is none.
C1_ShortestPaths ==
    (pc = "done" /\ size >= 1 /\ ValidSource /\ IsSquare(graph) /\ NonNegative(graph))
        => \A v \in Verts(size) : dist[v] = ShortestDist(graph, size, source, v)

\* a returned vector in which a two-edge route beat the direct edge
C1_Witness ==
    /\ pc = "done" /\ ValidSource /\ IsSquare(graph) /\ NonNegative(graph)
    /\ \E v \in Verts(size) :
        /\ Usable(graph[source][v])
        /\ dist[v] < graph[source][v]

\* C2: from_vertex with a source outside [0, N) fails with OutOfRange before
\* any computation: nothing is accessed out of bounds, the loop is not
\* entered and no vector is returned.
C2_OutOfRangeRejected ==
    (Called /\ ~ValidSource) => (pc = "out_of_range" /\ ~oob)

\* C3: no constructed engine holds a non-square matrix.
C3_SquareOnly == (pc # "new") => IsSquare(graph)

\* C4: for an engine built from the empty matrix, from_vertex returns the
\* empty vector without fault and without accessing any element of the
\* distance vector or the marker array.
C4_EmptyNoFault ==
    (Called /\ size = 0) => (pc # "fault" /\ ~oob /\ dist = <<>>)

\* C5: for N >= 1 and a source in [0, N), dist[source] is 0 after
\* initialisation and at every later step, the source is the vertex selected
\* by the first iteration, it is processed from then on, and the returned
\* vector has length N.
C5_SourceZero ==
    (pc \in {"loop", "done"} /\ size >= 1 /\ ValidSource)
        => /\ DOMAIN dist = Verts(size)
           /\ dist[source] = 0
           /\ (count = 1 => u = source)
           /\ (count >= 1 => is_processed[source])

\* a returned vector for a source other than vertex 0 into which a reached
\* vertex has a usable edge
C5_Witness ==
    /\ pc = "done" /\ size >= 3 /\ ValidSource /\ source # 0 /\ IsSquare(graph)
    /\ \E w \in Verts(size) : w # source /\ dist[w] # Inf /\ Usable(graph[w][source])

\* C6: the stored matrix and size are the ones recorded at construction,
\* whatever from_vertex calls have been made.
C6_EngineImmutable ==
    (pc # "new") => (graph = given /\ size = RowLen(given))

\* a call that relaxed through a vertex other than the source has returned
C6_Witness ==
    /\ pc = "done" /\ ValidSource /\ IsSquare(graph)
    /\ \E v \in Verts(size) : dist[v] # Inf /\ ~Usable(graph[source][v]) /\ v # source

\* C7: no relaxation updates a distance through a zero entry, and a vertex
\* whose entries from all reached vertices are zero is returned at infinity.
C7_ZeroStep ==
    (pc = "loop" /\ pc' = "loop" /\ count' = count + 1)
        => \A v \in Verts(size) :
              (dist'[v] # dist[v]) => (v \in DOMAIN graph[u'] => graph[u'][v] # 0)

C7_ZeroFinal ==
    (pc = "done" /\ ValidSource /\ IsSquare(graph))
        => \A v \in Verts(size) \ {source} :
              (\A w \in Verts(size) \ {v} : dist[w] # Inf => graph[w][v] = 0)
                  => dist[v] = Inf

C7_ZeroIsNoEdge == [][C7_ZeroStep]_vars /\ []C7_ZeroFinal

\* a vertex returned at infinity although a vertex reached and selected
\* after the source has a (zero) entry to it
C7_Witness ==
    /\ pc = "done" /\ ValidSource /\ IsSquare(graph) /\ size >= 3
    /\ \E v \in Verts(size) \ {source} :
        /\ dist[v] = Inf
        /\ \E w \in Verts(size) \ {v, source} :
              dist[w] # Inf /\ is_processed[w] /\ graph[w][v] = 0

\* C8: on the fixture of main() with source 0 the vertices are selected in
\* the order 0, 2, 3 and the returned vector is [0, -1, -2, 0].
C8_Fixture ==
    (pc \in {"loop", "done"} /\ graph = Fixture /\ source = 0)
        => /\ (count = 1 => u = 0)
           /\ (count = 2 => u = 2)
           /\ (count = 3 => u = 3)
           /\ (pc = "done" =>
                 /\ DOMAIN dist = 0 .. 3
                 /\ dist[0] = 0 /\ dist[1] = 0 - 1 /\ dist[2] = 0 - 2 /\ dist[3] = 0)

C8_Witness == pc = "done" /\ graph = Fixture /\ source = 0 /\ count = 3

\* C9: each selection picks, among the unprocessed vertices of smallest
\* current distance, the one of highest index.
C9_Step ==
    (pc = "loop" /\ pc' = "loop" /\ count' = count + 1)
        => LET m == MinOf({dist[v] : v \in Unprocessed})
           IN  u' = MaxOf({v \in Unprocessed : dist[v] = m})

C9_LastTieWins == [][C9_Step]_vars

\* a selection at a finite distance that passed over a lower-indexed
\* unprocessed vertex at the same distance
C9_Witness ==
    /\ pc = "loop" /\ ValidSource /\ IsSquare(graph) /\ NonNegative(graph)
    /\ u \in Verts(size) /\ dist[u] # Inf /\ u # source
    /\ \E v \in Unprocessed : v < u /\ dist[v] = dist[u]

\* C10: with N >= 1 and a valid source, every selection is an index in
\* [0, N) of a vertex not processed before, so count vertices are processed
\* after count iterations, and the call returns after N - 1 iterations with
\* exactly one vertex never selected.
C10_Selection ==
    (pc \in {"loop", "done"} /\ size >= 1 /\ ValidSource)
        => /\ Cardinality(Processed) = count
           /\ (count >= 1 => (u \in Verts(size) /\ is_processed[u]))
           /\ (pc = "done" => (count = size - 1 /\ Cardinality(Unprocessed) = 1))

\* a returned call in which a vertex at infinity was selected
C10_Witness ==
    /\ pc = "done" /\ size >= 3 /\ ValidSource /\ IsSquare(graph)
    /\ u \in Verts(size) /\ dist[u] = Inf
====
